---- MODULE Spec2Model ----
(***************************************************************************)
(* A model of lazyboy: the mutation-tracking Record (lazyboy/record.py),   *)
(* the SuperColumn container (lazyboy/supercolumn.py) and the Model layer  *)
(* (lazyboy/models.py).                                                    *)
(*                                                                         *)
(* Spec      : one Record, driven by set, delete, load, save, remove,      *)
(*             revert and set_key, with a clock that ticks in between.     *)
(* IterSpec  : the enumerations of a SuperColumn container, page by page,  *)
(*             with gets and assignments in between.                       *)
(* IterLive  : IterSpec with a caller that keeps resuming the generator.   *)
(* SuperSpec : a container whose children are got, appended, edited and    *)
(*             saved.                                                      *)
(* ModelSpec : two instances of a Model class and the row they share.      *)
(* TypeSpec  : class statements that derive Model classes.                 *)
(***************************************************************************)
EXTENDS Integers, Sequences, FiniteSets, TLC

(***************************************************************************)
(* Bounds of the model.                                                    *)
(***************************************************************************)
\* util.timestamp() is read from the wall clock; the model's clock stops here.
MaxClock == 1

\* The column names the application uses, in a fixed listing order.
NameSeq == <<"n1", "n2">>
Names == {NameSeq[i] : i \in 1..Len(NameSeq)}
Pos(n) == CHOOSE i \in 1..Len(NameSeq) : NameSeq[i] = n

\* Values the application passes to set: None, two strings and an integer
\* whose str() is one of the strings.
NoneValue == [kind |-> "none", s |-> "", n |-> 0]
Values == {NoneValue,
           [kind |-> "str", s |-> "a", n |-> 0],
           [kind |-> "str", s |-> "1", n |-> 0],
           [kind |-> "int", s |-> "", n |-> 1]}

\* What the store may hold in a column.
StoredValues == {"a", "1"}

\* The row keys the application uses; NoKey is Python's None.
NoKey == [column_family |-> "", key |-> ""]
RowKeys == {"u1"}

\* Consistency levels a caller may pass: None, or a member of the enum.
\* ZERO is the member whose numeric value is 0.
Consistencies == {"None", "ZERO", "QUORUM"}

\* The iteration orders of a Python dict whose keys are S: any order.
OrdersOf(S) == {o \in [1..Cardinality(S) -> S] :
                  \A i, j \in 1..Cardinality(S) : i # j => o[i] # o[j]}

(***************************************************************************)
(* Finite maps (Python dicts) as functions with a varying domain.          *)
(***************************************************************************)
EmptyMap == [x \in {} |-> TRUE]
Put(f, k, v) == [x \in (DOMAIN f) \cup {k} |-> IF x = k THEN v ELSE f[x]]
Drop(f, k) == [x \in (DOMAIN f) \ {k} |-> f[x]]
KeysIn(f, ord) == SelectSeq(ord, LAMBDA n : n \in DOMAIN f)

(***************************************************************************)
(* The state of one Record.                                                *)
(***************************************************************************)
VARIABLES
    items,      \* the dict the Record is: name -> value
    original,   \* _original: name -> reference to a Column object
    columns,    \* _columns:  name -> reference to a Column object
    modified,   \* _modified: name -> True
    deleted,    \* _deleted:  name -> bool
    key,        \* key: a Key, or NoKey
    heap,       \* the Column objects: reference -> [name, value, timestamp]
    now,        \* the wall clock
    \* what the last operation was and did
    op,         \* [name, item, value, fault, consistency]: the call, what
                \* failed in it and the consistency it was called with
    err,        \* the exception it raised, or "none"
    calls,      \* the storage calls it issued, in order
    indexed,    \* the index appends it made, in order
    \* one enumeration of a SuperColumn container
    rows,       \* how many super columns the store holds in the row
    local,      \* its local map: super key -> the child held for the key
    cache,      \* the cache the SuperColumn class holds: cache key -> the
                \* super key of the entry the store answered with
    cop,        \* the last call of the application on the container
    cerr,       \* the exception it raised, or "none"
    entry,      \* the method that enumerates
    pc,         \* where the generator _iter_columns stands
    start,      \* its start
    limit,      \* its limit
    chunk_size, \* its chunk_size
    returned,   \* its returned
    scols,      \* the page it is in
    pos,        \* the place in scols[fudge:] of the loop "for scol in"
    scol,       \* its scol: the last entry the loop bound, or Unbound
    yielded,    \* the entries it has yielded, in order
    requests,   \* the first MaxRequests get_slice requests sent, in order
    sent,       \* the other storage calls the last call on it sent, in order
    \* a Model class, two instances of it and the row they are stored in
    cls,        \* the fields of the class: name -> [type, required, default]
    minst,      \* m, the instance the application edits and saves
    ainst,      \* a, a second instance, made by cls(key_field=key)
    store,      \* the store: row key -> (column name -> stored string)
    mop,        \* the last operation on them: [name, field, value]
    merr,       \* the exception it raised, or "none"
    mcalls,     \* the storage calls it issued
    \* the definition of Model classes, each a subclass of the one before
    tbase,      \* the class to derive from: [fields, key_field, meta]
    tdef,       \* the last class statement: [inherited, attrs, meta]
    tres        \* what it gave: [err, fields, key_field]

recvars == <<items, original, columns, modified, deleted, key, heap>>
opvars == <<now, op, err, calls, indexed>>
itervars == <<rows, local, cache, cop, cerr, entry, pc, start, limit,
              chunk_size, returned, scols, pos, scol, yielded, requests,
              sent>>
modelvars == <<cls, minst, ainst, store, mop, merr, mcalls>>
typevars == <<tbase, tdef, tres>>
vars == <<recvars, opvars, itervars, modelvars, typevars>>

\* What the operations of a Record, of an enumeration, of a Model instance
\* and a class statement leave alone.
notrecord == <<itervars, modelvars, typevars>>
notiter == <<recvars, opvars, modelvars, typevars>>
notmodel == <<recvars, opvars, itervars, typevars>>
nottype == <<recvars, opvars, itervars, modelvars>>

Self == [items |-> items, original |-> original, columns |-> columns,
         modified |-> modified, deleted |-> deleted, key |-> key, heap |-> heap]

\* What an operation returns: the record's state after it, the exception it
\* raised ("none" when it returned), the storage calls and index appends made.
Result(st, e, cs, ix) == [st |-> st, err |-> e, calls |-> cs, indexed |-> ix]

(***************************************************************************)
(* Column objects.  A reference is a positive integer; two references are  *)
(* the same object exactly when they are equal (Python's "is").            *)
(***************************************************************************)
NoRef == 0
MaxId(h) == IF DOMAIN h = {} THEN 0
            ELSE CHOOSE m \in DOMAIN h : \A i \in DOMAIN h : i <= m

\* Column(name=item): value and timestamp are still None.
NewColumn(item) == [name |-> item, value |-> "None", timestamp |-> -1]

\* self._original.get(item, None)
OrigRef(r, item) == IF item \in DOMAIN r.original THEN r.original[item] ELSE NoRef

\* References are addresses: nothing depends on which integer an object
\* has.  A Column object is only ever reachable as _original[n] or as
\* _columns[n] of its own name n, so after each operation the objects no map
\* refers to are dropped, the object of _original[n] is given the number
\* Pos(n), and the object of _columns[n] the same number when it is that
\* very object and Len(NameSeq) + Pos(n) when it is another one.
ColRef(r, n) ==
    IF n \in DOMAIN r.original /\ r.columns[n] = r.original[n]
    THEN Pos(n) ELSE Len(NameSeq) + Pos(n)

Compact(r) ==
    [r EXCEPT
       !.original = [n \in DOMAIN r.original |-> Pos(n)],
       !.columns = [n \in DOMAIN r.columns |-> ColRef(r, n)],
       !.heap = [i \in {Pos(n) : n \in DOMAIN r.original}
                       \cup {ColRef(r, n) : n \in DOMAIN r.columns} |->
                   IF i <= Len(NameSeq)
                   THEN r.heap[r.original[NameSeq[i]]]
                   ELSE r.heap[r.columns[NameSeq[i - Len(NameSeq)]]]]]

(***************************************************************************)
(* Record.sanitize: None is refused; anything else becomes its str().      *)
(***************************************************************************)
SanitizeRaises(value) == value.kind = "none"
Sanitize(value) == IF value.kind = "int" THEN ToString(value.n) ELSE value.s

\* copy.copy(_orig): a new object with the same fields.
CopyOnWriteMissing(r, item, _orig) == r
CopyOnWrite(r, item, _orig) ==
    IF r.columns[item] = _orig
    THEN LET col == MaxId(r.heap) + 1
         IN [r EXCEPT !.heap = Put(r.heap, col, r.heap[_orig]),
                      !.columns = Put(r.columns, item, col)]
    ELSE r

(***************************************************************************)
(* Record.__setitem__                                                      *)
(***************************************************************************)
SetItem(r, item, v, t) ==
    IF SanitizeRaises(v) THEN Result(r, "InvalidValue", <<>>, <<>>)
    ELSE
    LET value == Sanitize(v)
        _orig == OrigRef(r, item)
    IN  \* If this doesn't change anything, don't record it
        IF _orig # NoRef /\ r.heap[_orig].value = value
        THEN Result(r, "none", <<>>, <<>>)
        ELSE
        LET r1 == [r EXCEPT !.items = Put(r.items, item, value)]
            r2 == IF item \notin DOMAIN r1.columns
                  THEN LET col == MaxId(r1.heap) + 1
                       IN [r1 EXCEPT !.heap = Put(r1.heap, col, NewColumn(item)),
                                     !.columns = Put(r1.columns, item, col)]
                  ELSE r1
            r3 == [r2 EXCEPT !.deleted = Drop(r2.deleted, item),
                             !.modified = Put(r2.modified, item, TRUE)]
            r4 == CopyOnWrite(r3, item, _orig)
        IN  IF r4.columns[item] = OrigRef(r4, item)
            THEN Result(r4, "AssertionError", <<>>, <<>>)
            ELSE Result([r4 EXCEPT
                           !.heap[r4.columns[item]].value = value,
                           !.heap[r4.columns[item]].timestamp = t],
                        "none", <<>>, <<>>)

(***************************************************************************)
(* Record.__delitem__.  dict.__delitem__ raises KeyError for a name the    *)
(* dict does not hold, and so does "del self._columns[item]"; the second    *)
(* comes after the dict and _deleted have been changed.                    *)
(***************************************************************************)
DeletedFlag(r, item) == Put(r.deleted, item, item \in DOMAIN r.original)

KeepModifiedOnDelete(r, item) == r.modified
ModifiedAfterDelete(r, item) == Drop(r.modified, item)

DelItem(r, item) ==
    IF item \notin DOMAIN r.items THEN Result(r, "KeyError", <<>>, <<>>)
    ELSE
    LET r1 == [r EXCEPT !.items = Drop(r.items, item)]
        r2 == [r1 EXCEPT !.deleted = DeletedFlag(r1, item)]
        r3 == [r2 EXCEPT !.modified = ModifiedAfterDelete(r2, item)]
    IN IF item \notin DOMAIN r3.columns
       THEN Result(r3, "KeyError", <<>>, <<>>)
       ELSE Result([r3 EXCEPT !.columns = Drop(r3.columns, item)],
                   "none", <<>>, <<>>)

(***************************************************************************)
(* Record._clean: map(self.__delitem__, self.keys()), then the reset.  A   *)
(* KeyError of __delitem__ ends it where it is.                            *)
(***************************************************************************)
RECURSIVE DelAll(_, _)
DelAll(r, ks) ==
    IF ks = <<>> THEN Result(r, "none", <<>>, <<>>)
    ELSE LET d == DelItem(r, Head(ks))
         IN IF d.err # "none" THEN d ELSE DelAll(d.st, Tail(ks))

Clean(r, ord) ==
    LET d == DelAll(r, KeysIn(r.items, ord))
    IN IF d.err # "none" THEN d
       ELSE Result([d.st EXCEPT !.original = EmptyMap, !.columns = EmptyMap,
                                !.modified = EmptyMap, !.deleted = EmptyMap,
                                !.key = NoKey, !.heap = EmptyMap],
                   "none", <<>>, <<>>)

(***************************************************************************)
(* Record.make_key and Key.get_path                                        *)
(***************************************************************************)
MakeKey(k) == [column_family |-> "cf", key |-> k]
GetPath(k, col) == [column_family |-> k.column_family, column |-> col]
WholePath(k) == [column_family |-> k.column_family, column |-> ""]

(***************************************************************************)
(* Record._inject: the fetched columns become _original, the dict gets     *)
(* their values, _columns is a shallow copy (the same Column objects).     *)
(***************************************************************************)
Inject(r, k, cols) ==
    LET base == MaxId(r.heap)
        orig == [n \in DOMAIN cols |-> base + Pos(n)]
    IN [r EXCEPT
          !.key = k,
          !.heap = [i \in (DOMAIN r.heap) \cup {orig[n] : n \in DOMAIN cols} |->
                      IF i \in DOMAIN r.heap THEN r.heap[i]
                      ELSE LET n == CHOOSE m \in DOMAIN cols : orig[m] = i
                           IN [name |-> n, value |-> cols[n].value,
                               timestamp |-> cols[n].timestamp]],
          !.original = orig,
          !.items = [n \in (DOMAIN r.items) \cup (DOMAIN cols) |->
                       IF n \in DOMAIN cols THEN cols[n].value ELSE r.items[n]],
          !.columns = orig,
          !.modified = EmptyMap,
          !.deleted = EmptyMap]

(***************************************************************************)
(* Record._marshal: the paths of the names in _deleted and the Column      *)
(* objects of the names in _modified.  ord is the iteration order of the   *)
(* _deleted dict.                                                          *)
(***************************************************************************)
MarshalNothingDeleted(r, ord) == <<>>
MarshalDeleted(r, ord) ==
    LET ks == KeysIn(r.deleted, ord)
    IN [i \in 1..Len(ks) |-> GetPath(r.key, ks[i])]

\* The changed columns travel in one batch, where their order is of no
\* consequence: they are listed in the order of NameSeq.
MarshalChanged(r) ==
    LET ks == KeysIn(r.modified, NameSeq)
    IN [i \in 1..Len(ks) |-> r.columns[ks[i]]]

\* self._columns[key] for a modified name _columns does not hold.
MarshalRaises(r) == \E n \in DOMAIN r.modified : n \notin DOMAIN r.columns

Marshal(r, ord) == [deleted |-> MarshalDeleted(r, ord),
                    changed |-> MarshalChanged(r)]

(***************************************************************************)
(* Class-level configuration of the record: its mirrors and indexes, and   *)
(* the consistency it falls back to.                                       *)
(***************************************************************************)
Mirrors == <<"mirror1">>
Indexes == <<"index1">>
\* mirror.mirror_key(self): the key the mirror stores the record under.
MirrorKey(m, r) == [column_family |-> m, key |-> r.key.key]
\* self.consistency, the record-level default.
RecordConsistency == "ONE"

\* "consistency or self.consistency": None and the enum member 0 are falsy.
ConsistencyOr(c, d) == IF c \in {"None", "ZERO"} THEN d ELSE c

(***************************************************************************)
(* Failures of the collaborators are inputs of an operation: which storage *)
(* call of the primary write raises (0: none), which mirror fails and      *)
(* where (at 0: its mirror_key raises; at k: its k-th storage call), which *)
(* index append raises (0: none).                                          *)
(***************************************************************************)
\* The storage calls _save_internal makes for one key.
NumCalls(r) == Cardinality(DOMAIN r.deleted)
               + (IF DOMAIN r.modified = {} THEN 0 ELSE 1)
NoFault == [p |-> 0, mirror |-> 0, at |-> 0, index |-> 0]
\* The failures a save that issues n storage calls per key can meet: none,
\* one failure at any one place, or a mirror_key that raises followed by an
\* index append that raises.
Faults(n) == {NoFault}
             \cup {[NoFault EXCEPT !.p = k] : k \in 1..n}
             \cup [p : {0}, mirror : 1..Len(Mirrors), at : 0..n, index : {0}]
             \cup [p : {0}, mirror : {0}, at : {0}, index : 1..Len(Indexes)]
             \cup [p : {0}, mirror : 1..Len(Mirrors), at : {0},
                   index : 1..Len(Indexes)]

(***************************************************************************)
(* Record._save_internal: one remove per deleted path, then _deleted is    *)
(* cleared, then one batch_insert when there are changed columns.          *)
(***************************************************************************)
RemoveCall(k, path, t) ==
    [op |-> "remove", key |-> k, path |-> path, columns |-> {},
     timestamp |-> t]
InsertCall(r, k, changed) ==
    [op |-> "batch_insert", key |-> k, path |-> WholePath(k),
     columns |-> {r.heap[changed[i]] : i \in 1..Len(changed)},
     timestamp |-> -1]

\* Every storage call of one operation carries the same consistency, the
\* operation's "consistency or self.consistency".  The operations below list
\* their calls without it and Issued adds it to each.
Issued(cs, consistency) ==
    [i \in 1..Len(cs) |->
        [op |-> cs[i].op, key |-> cs[i].key, path |-> cs[i].path,
         columns |-> cs[i].columns, timestamp |-> cs[i].timestamp,
         consistency |-> ConsistencyOr(consistency, RecordConsistency)]]

InsertWhenClean(changed) == TRUE
InsertWanted(changed) == changed # <<>>

\* The mutant of SaveInternal: the pending edits are dropped before the calls.
SaveInternalLosesEdits(r, k, changes, failAt, t) ==
    LET all == [i \in 1..Len(changes.deleted) |->
                   RemoveCall(k, changes.deleted[i], t)]
               \o (IF changes.changed # <<>>
                   THEN <<InsertCall(r, k, changes.changed)>> ELSE <<>>)
    IN Result([r EXCEPT !.deleted = EmptyMap, !.modified = EmptyMap],
              IF failAt \in 1..Len(all) THEN "StorageError" ELSE "none",
              IF failAt \in 1..Len(all) THEN SubSeq(all, 1, failAt) ELSE all,
              <<>>)
\* The mutant of SaveInternal: the batch_insert goes out before the removes.
SaveInternalInsertFirst(r, k, changes, failAt, t) ==
    Result([r EXCEPT !.deleted = EmptyMap], "none",
           <<InsertCall(r, k, changes.changed)>>
              \o [i \in 1..Len(changes.deleted) |->
                     RemoveCall(k, changes.deleted[i], t)],
           <<>>)
SaveInternal(r, k, changes, failAt, t) ==
    LET removes == [i \in 1..Len(changes.deleted) |->
                      RemoveCall(k, changes.deleted[i], t)]
    IN IF failAt \in 1..Len(removes)
       THEN Result(r, "StorageError", SubSeq(removes, 1, failAt), <<>>)
       ELSE
       LET r1 == [r EXCEPT !.deleted = EmptyMap]
       IN IF ~InsertWanted(changes.changed)
          THEN Result(r1, "none", removes, <<>>)
          ELSE Result(r1,
                      IF failAt = Len(removes) + 1 THEN "StorageError" ELSE "none",
                      Append(removes, InsertCall(r1, k, changes.changed)),
                      <<>>)

(***************************************************************************)
(* copy.deepcopy(self._columns): new Column objects with the same fields.  *)
(***************************************************************************)
DeepCopyColumns(r) ==
    LET base == MaxId(r.heap)
        orig == [n \in DOMAIN r.columns |-> base + Pos(n)]
    IN [r EXCEPT
          !.heap = [i \in (DOMAIN r.heap) \cup {orig[n] : n \in DOMAIN orig} |->
                      IF i \in DOMAIN r.heap THEN r.heap[i]
                      ELSE r.heap[r.columns[CHOOSE m \in DOMAIN orig : orig[m] = i]]],
          !.original = orig]

(***************************************************************************)
(* Record.valid / Record.missing: the required names self.get() finds      *)
(* nothing (or an empty value) for.                                        *)
(***************************************************************************)
\* _required = (): the base Record requires nothing.
Required == {}
Missing(r, req) == {n \in req : n \notin DOMAIN r.items \/ r.items[n] = ""}
Valid(r, req) == Missing(r, req) = {}

(***************************************************************************)
(* Record.default_key: the base class has no default and raises            *)
(* ErrorMissingKey; NoKey stands for "raised".                             *)
(***************************************************************************)
DefaultKeySupplied(r) == [column_family |-> "cf", key |-> "u1"]
DefaultKey(r) == NoKey

(***************************************************************************)
(* Record.save, after the primary write: the mirrors, then (finally) the   *)
(* indexes, then (finally) the cleanup.                                    *)
(***************************************************************************)
RECURSIVE SaveMirrors(_, _, _, _, _)
SaveMirrors(r, i, changes, f, t) ==
    IF i > Len(Mirrors) THEN Result(r, "none", <<>>, <<>>)
    ELSE IF f.mirror = i /\ f.at = 0
    THEN Result(r, "MirrorError", <<>>, <<>>)
    ELSE LET s == SaveInternal(r, MirrorKey(Mirrors[i], r), changes,
                               IF f.mirror = i THEN f.at ELSE 0, t)
         IN IF s.err # "none"
            THEN Result(s.st, "MirrorError", s.calls, <<>>)
            ELSE LET rest == SaveMirrors(s.st, i + 1, changes, f, t)
                 IN Result(rest.st, rest.err, s.calls \o rest.calls, <<>>)

IndexesSkippedOnError(r, f, mirrorErr) ==
    IF mirrorErr # "none" THEN Result(r, "none", <<>>, <<>>)
    ELSE IF f.index = 0 THEN Result(r, "none", <<>>, Indexes)
    ELSE Result(r, "IndexError", <<>>, SubSeq(Indexes, 1, f.index))
AppendIndexes(r, f, mirrorErr) ==
    IF f.index = 0 THEN Result(r, "none", <<>>, Indexes)
    ELSE Result(r, "IndexError", <<>>, SubSeq(Indexes, 1, f.index))

\* The outer "finally" of save, run whether or not the fan-out raised.
CleanupAfterFanOut(r, changes) ==
    DeepCopyColumns([r EXCEPT !.modified =
                        IF changes.changed # <<>> THEN EmptyMap ELSE @])

\* The statements after the try, reached when nothing was raised:
\* copy.copy(self._columns) is a new dict holding the same Column objects.
CleanupOnReturn(r) ==
    [r EXCEPT !.modified = EmptyMap, !.deleted = EmptyMap,
              !.original = r.columns]

\* The cleanup of save: e is what the fan-out raised.
FinishLeavesDirty(r, changes, e) == r
Finish(r, changes, e) ==
    IF e # "none" THEN CleanupAfterFanOut(r, changes)
    ELSE CleanupOnReturn(CleanupAfterFanOut(r, changes))

Save(r, req, f, ord, t) ==
    IF ~Valid(r, req) THEN Result(r, "MissingField", <<>>, <<>>)
    ELSE
    LET k == IF r.key = NoKey THEN DefaultKey(r) ELSE r.key
    IN IF k = NoKey THEN Result(r, "MissingKey", <<>>, <<>>)
       ELSE
       LET r0 == [r EXCEPT !.key = k]
           changes == Marshal(r0, ord)
           p == SaveInternal(r0, k, changes, f.p, t)
       IN IF MarshalRaises(r0) THEN Result(r0, "KeyError", <<>>, <<>>)
          ELSE IF p.err # "none" THEN p
          ELSE
          LET m == SaveMirrors(p.st, 1, changes, f, t)
              ix == AppendIndexes(m.st, f, m.err)
              \* an exception raised in a "finally" replaces the pending one
              e == IF ix.err # "none" THEN ix.err ELSE m.err
          IN Result(Finish(ix.st, changes, e), e, p.calls \o m.calls,
                    ix.indexed)

(***************************************************************************)
(* Record.remove: one storage remove of the whole key path, then _clean.   *)
(* self.key.keyspace on a record without a key is an AttributeError.       *)
(***************************************************************************)
Remove(r, fails, ord, t) ==
    IF r.key = NoKey THEN Result(r, "AttributeError", <<>>, <<>>)
    ELSE
    LET call == RemoveCall(r.key, WholePath(r.key), t)
    IN IF fails THEN Result(r, "StorageError", <<call>>, <<>>)
       ELSE LET c == Clean(r, ord)
            IN Result(c.st, c.err, <<call>>, <<>>)

(***************************************************************************)
(* Record.revert: _columns is a shallow copy of _original again, the dict  *)
(* is updated with (not replaced by) the original values.                  *)
(***************************************************************************)
Revert(r) ==
    [r EXCEPT
       !.columns = r.original,
       !.items = [n \in (DOMAIN r.items) \cup (DOMAIN r.original) |->
                    IF n \in DOMAIN r.original
                    THEN r.heap[r.original[n]].value ELSE r.items[n]],
       !.modified = EmptyMap,
       !.deleted = EmptyMap]

(***************************************************************************)
(* Record.load: _clean, then the slice read, then _inject.                 *)
(***************************************************************************)
SliceCall(k) ==
    [op |-> "get_slice", key |-> k, path |-> WholePath(k), columns |-> {},
     timestamp |-> -1]

Load(r, rowkey, cols, fails, ord) ==
    LET k == MakeKey(rowkey)
        c == Clean(r, ord)
        call == SliceCall(k)
    IN IF c.err # "none" THEN c
       ELSE IF fails
       THEN Result([c.st EXCEPT !.key = k], "StorageError", <<call>>, <<>>)
       ELSE Result(Inject(c.st, k, cols), "none", <<call>>, <<>>)

\* What a row of the store may hold: columns written before the clock of
\* the model started.
StoredColumn == [value : StoredValues, timestamp : {0}]
StoredRows == UNION {[S -> StoredColumn] : S \in SUBSET Names}

(***************************************************************************)
(* The record as a state machine: one action per operation.                *)
(***************************************************************************)
NoOp(name) == [name |-> name, item |-> "", value |-> NoneValue,
               fault |-> NoFault, consistency |-> "None"]

\* The operation o, called with one of the consistencies cs, ends with the
\* result res.  No operation of the record reads the clock's hand forward or
\* touches an enumeration.
Become(result, cs, o) ==
    \E res \in {result} :
    \E st \in {Compact(res.st)} :
    \E c \in cs :
       /\ items' = st.items
       /\ original' = st.original
       /\ columns' = st.columns
       /\ modified' = st.modified
       /\ deleted' = st.deleted
       /\ key' = st.key
       /\ heap' = st.heap
       /\ err' = res.err
       /\ calls' = Issued(res.calls, c)
       /\ indexed' = res.indexed
       /\ op' = [o EXCEPT !.consistency = c]

RecordInit ==
    /\ items = EmptyMap
    /\ original = EmptyMap
    /\ columns = EmptyMap
    /\ modified = EmptyMap
    /\ deleted = EmptyMap
    /\ key = NoKey
    /\ heap = EmptyMap
    /\ now = 0
    /\ op = NoOp("init")
    /\ err = "none"
    /\ calls = <<>>
    /\ indexed = <<>>

(***************************************************************************)
(* SuperColumn._iter_columns, the generator behind __iter__, load_all and  *)
(* iterkeys.  The row of the store holds the super columns 1..rows, in     *)
(* store order; an entry is known by its super key.                        *)
(***************************************************************************)
\* The row holds at most MaxRows super columns; a caller passes a limit of
\* at most MaxLimit; the model records the first MaxRequests requests.
MaxRows == 24
MaxLimit == 3
MaxRequests == 3

\* start="": the empty string, which bool() takes for False.
NoStart == 0
\* limit=None: Python 2 orders None below every integer.
NoLimit == -1
\* scol before the loop "for scol in" has bound it.
Unbound == 0

\* chunk_size=10 of _iter_columns, chunk_size=2**30 of load_all.
DefaultChunkSize == 10
LoadAllChunkSize == 2 ^ 30
ChunkSizes == {1, 2, DefaultChunkSize}
Limits == {NoLimit} \cup (1..MaxLimit)
Starts == {NoStart, 1}

\* The range every request carries, whatever start and chunk_size are.
SliceRange == [start |-> " ", finish |-> "~"]

\* The store's answer: every super key lies between " " and "~", and the
\* request sets no count, so the answer is the whole row.
GetSlice(n) == [i \in 1..n |-> i]

\* fudge = int(bool(start))
Fudge(st) == IF st = NoStart THEN 0 ELSE 1

\* returned >= limit
LimitReached(ret, lim) == ret >= lim

\* len(scols) < chunk_size
ShortPage(page, chunk) == Len(page) < chunk

(***************************************************************************)
(* The local map of the container.  Two objects made for different super   *)
(* keys are different objects; the objects made for one super key are      *)
(* told apart by their number: the first made for it is 1, the next 2.     *)
(***************************************************************************)
\* A child of the container.
\*   obj       which of the objects held for its super key it is
\*   columns   the super key whose stored columns it was loaded with
\*   pk        its pk: [supercol, superkey]
\*   modified  the names of the columns it holds an unsaved value for
\*   deleted   the names of the columns it holds an unsaved delete for
ContainerName == "name"

\* self.pk.clone(supercol=..., superkey=...): table, family and key are those
\* of the one row the container stands for.
Clone(supercol, superkey) == [supercol |-> supercol, superkey |-> superkey]

\* dict.__setitem__(key, self._instantiate(key, columns))
Instantiate(loc, k, cols) ==
    Put(loc, k, [obj |-> IF k \in DOMAIN loc THEN loc[k].obj + 1 ELSE 1,
                 columns |-> cols,
                 pk |-> Clone(ContainerName, k),
                 modified |-> {},
                 deleted |-> {}])

\* __iter__: an entry the local map holds is kept; one it lacks is made of
\* the columns of the entry.
Materialize(loc, k) ==
    IF k \in DOMAIN loc THEN loc ELSE Instantiate(loc, k, k)

\* The keys of __cache: str(self.pk) of _load_one, and pk.key + ':' + name.
PkCacheKey == 0
CacheKey(name) == name

\* container[superkey]: _load_one when the local map lacks the key; it asks
\* the store only when the cache lacks str(self.pk).
\* A call the container sends to the store: client.get of a super key,
\* client.remove of a column of a super key, or batch_insert_super_column
\* of the lists its cfmap holds.
SentCall(name, superkey, column, cfmap) ==
    [name |-> name, superkey |-> superkey, column |-> column, cfmap |-> cfmap]
GetCall(k) == SentCall("get", k, "", <<>>)

\* _load_one: the entry the cache holds under str(self.pk), whatever super
\* key it was read for, or else the store's answer for superkey.
LoadOne(ch, k) == IF PkCacheKey \in DOMAIN ch THEN ch[PkCacheKey] ELSE k

GetItem(loc, ch, k) ==
    IF k \in DOMAIN loc
    THEN [local |-> loc, cache |-> ch, sent |-> <<>>, err |-> "none"]
    ELSE [local |-> Instantiate(loc, k, LoadOne(ch, k)),
          cache |-> Put(ch, PkCacheKey, LoadOne(ch, k)),
          sent |-> IF PkCacheKey \in DOMAIN ch THEN <<>> ELSE <<GetCall(k)>>,
          err |-> "none"]

\* container[item] = value, were it a dict's.
SetItemStores(loc, k) == [local |-> Instantiate(loc, k, k), err |-> "none"]
\* container[item] = value
ContainerSetItem(loc, k) == [local |-> loc, err |-> "NotSupported"]

\* The super keys an application asks for or assigns.
AskedKeys == {1, 2}

(***************************************************************************)
(* The objects an application hands to append.  hasattr is modelled by a   *)
(* flag; an attribute the object lacks has the first value of its kind.    *)
(***************************************************************************)
SuperColNames == {ContainerName, "other"}
NestedObjects ==
    {n \in [haspk : BOOLEAN, hassupercol : BOOLEAN, hassuperkey : BOOLEAN,
            supercol : SuperColNames, superkey : AskedKeys] :
        /\ ~n.haspk => ~n.hassupercol /\ ~n.hassuperkey
        /\ ~n.hassupercol => n.supercol = ContainerName
        /\ ~n.hassuperkey => n.superkey = 1}
NoNested == [haspk |-> FALSE, hassupercol |-> FALSE, hassuperkey |-> FALSE,
             supercol |-> ContainerName, superkey |-> 1]

\* The four asserts of append; hasattr(self, 'pk') holds since __init__.
HasPosition(n) == n.haspk /\ n.hassupercol /\ n.hassuperkey

\* The object append stores: the one it was handed, its pk rewritten.  It
\* was made by the application (obj 0) and loaded from no super column.
Appended(n) ==
    [obj |-> 0, columns |-> 0, pk |-> Clone(ContainerName, n.superkey),
     modified |-> {}, deleted |-> {}]

\* The mutant of ContainerAppend: the asserts are left out.
AppendUnchecked(loc, n) ==
    [local |-> Put(loc, n.superkey, Appended(n)), err |-> "none"]

\* container.append(column_family)
ContainerAppend(loc, n) ==
    IF HasPosition(n)
    THEN [local |-> Put(loc, n.superkey, Appended(n)), err |-> "none"]
    ELSE [local |-> loc, err |-> "AssertionError"]

(***************************************************************************)
(* The pending edits of a child, as a Record keeps them.                   *)
(***************************************************************************)
\* child[n] = value
ChildSet(c, n) ==
    [c EXCEPT !.modified = @ \cup {n}, !.deleted = @ \ {n}]
\* del child[n]
ChildDel(c, n) ==
    [c EXCEPT !.modified = @ \ {n}, !.deleted = @ \cup {n}]
\* col.is_modified()
ChildIsModified(c) == Cardinality(c.modified) + Cardinality(c.deleted) # 0

(***************************************************************************)
(* container.save().  self.values() lists the children by super key.       *)
(***************************************************************************)
Children(loc) == SelectSeq([i \in 1..Cardinality(AskedKeys) |-> i],
                           LAMBDA k : k \in DOMAIN loc)
ModifiedChildren(loc) ==
    SelectSeq(Children(loc), LAMBDA k : ChildIsModified(loc[k]))

\* dict((k.pk.supercol, []) for k in self.values()), then the
\* changes['changed'] of each modified child that has any, appended to the
\* list under its pk.supercol.
ChangedLists(loc, name) ==
    LET ks == SelectSeq(ModifiedChildren(loc),
                        LAMBDA k : /\ loc[k].pk.supercol = name
                                   /\ loc[k].modified # {})
    IN  [i \in 1..Len(ks) |-> loc[ks[i]].modified]
CfMap(loc) ==
    [name \in {loc[k].pk.supercol : k \in DOMAIN loc} |->
        ChangedLists(loc, name)]

\* The client.remove calls of one child: one for each of its deleted.
ChildRemoves(c) ==
    LET ns == SelectSeq(NameSeq, LAMBDA n : n \in c.deleted)
    IN  [i \in 1..Len(ns) |-> SentCall("remove", c.pk.superkey, ns[i], <<>>)]
RECURSIVE SaveRemoves(_, _)
SaveRemoves(loc, ks) ==
    IF ks = <<>> THEN <<>>
    ELSE ChildRemoves(loc[Head(ks)]) \o SaveRemoves(loc, Tail(ks))

\* if mutation.cfmap: client.batch_insert_super_column(...)
SaveInsert(loc) ==
    IF DOMAIN CfMap(loc) # {}
    THEN <<SentCall("batch_insert_super_column", 0, "", CfMap(loc))>>
    ELSE <<>>

\* container.save().  The argument of client.remove names the module
\* cassandra, which no import of supercolumn.py binds by name: whether
\* "from lazyboy.columnfamily import *" binds it decides (resolves) between
\* the call and a NameError at the first child that has a delete.
ContainerSave(loc, resolves) ==
    IF ~resolves /\ SaveRemoves(loc, ModifiedChildren(loc)) # <<>>
    THEN [local |-> loc, err |-> "NameError", sent |-> <<>>]
    ELSE [local |-> loc, err |-> "none",
          sent |-> SaveRemoves(loc, ModifiedChildren(loc)) \o SaveInsert(loc)]

NoCall == [name |-> "none", key |-> 0, arg |-> NoNested]

\* No enumeration is under way.
IterIdle ==
    /\ local = EmptyMap
    /\ cache = EmptyMap
    /\ sent = <<>>
    /\ cop = NoCall
    /\ cerr = "none"
    /\ entry = "none"
    /\ pc = "idle"
    /\ start = NoStart
    /\ limit = NoLimit
    /\ chunk_size = DefaultChunkSize
    /\ returned = 0
    /\ scols = <<>>
    /\ pos = 0
    /\ scol = Unbound
    /\ yielded = <<>>
    /\ requests = <<>>

(***************************************************************************)
(* lazyboy/models.py.  Python values a Model field can be given: None, a   *)
(* byte string, a unicode string, an int, a float, a bool, a dict.  A      *)
(* float is sig[1].sig[2]sig[3]... * 10^n, without trailing zeros; a dict  *)
(* is a function from keys to values, both not dicts.                      *)
(***************************************************************************)
Py(kind, str, num, sig, d) ==
    [kind |-> kind, s |-> str, n |-> num, sig |-> sig, d |-> d]
PyNone == Py("none", "", 0, <<>>, <<>>)
PyStr(str) == Py("str", str, 0, <<>>, <<>>)
PyUnicode(str) == Py("unicode", str, 0, <<>>, <<>>)
PyInt(i) == Py("int", "", i, <<>>, <<>>)
PyBool(b) == Py("bool", "", IF b THEN 1 ELSE 0, <<>>, <<>>)
PyFloat(sig, e) == Py("float", "", e, sig, <<>>)
PyDict(d) == Py("dict", "", 0, <<>>, d)
\* An exception raised where a value was asked for.
PyRaise(e) == Py("raise", e, 0, <<>>, <<>>)

\* The one text of the model that is not ASCII, and its UTF-8 bytes.
EAcute == "\\u00e9"
EAcuteUtf8 == "\\xc3\\xa9"
\* unicode.encode('utf-8')
Utf8(text) == IF text = EAcute THEN EAcuteUtf8 ELSE text
\* Whether Python 2 can read a byte string as ASCII, as it does to compare
\* it with a unicode string.
IsAscii(bytes) == bytes # EAcuteUtf8

\* The integer a float is, when it is one; Python compares numbers by value.
RECURSIVE DigitsToInt(_)
DigitsToInt(ds) ==
    IF ds = <<>> THEN 0
    ELSE 10 * DigitsToInt(SubSeq(ds, 1, Len(ds) - 1)) + ds[Len(ds)]
RECURSIVE TenTo(_)
TenTo(k) == IF k = 0 THEN 1 ELSE 10 * TenTo(k - 1)
FloatIsInt(x) == Len(x.sig) <= x.n + 1
FloatToInt(x) == DigitsToInt(x.sig) * TenTo(x.n + 1 - Len(x.sig))

\* Python 2's == on two values that are not dicts.
PyEqScalar(x, y) ==
    CASE x.kind = "none" -> y.kind = "none"
      [] x.kind = "str" /\ y.kind = "str" -> x.s = y.s
      [] x.kind = "unicode" /\ y.kind = "unicode" -> x.s = y.s
      [] x.kind = "str" /\ y.kind = "unicode" -> IsAscii(x.s) /\ x.s = y.s
      [] x.kind = "unicode" /\ y.kind = "str" -> IsAscii(y.s) /\ x.s = y.s
      [] x.kind \in {"int", "bool"} /\ y.kind \in {"int", "bool"} -> x.n = y.n
      [] x.kind = "float" /\ y.kind = "float" -> x.sig = y.sig /\ x.n = y.n
      [] x.kind = "float" /\ y.kind \in {"int", "bool"} ->
            FloatIsInt(x) /\ FloatToInt(x) = y.n
      [] x.kind \in {"int", "bool"} /\ y.kind = "float" ->
            FloatIsInt(y) /\ FloatToInt(y) = x.n
      [] OTHER -> FALSE

\* Python 2's ==.
PyEq(x, y) ==
    IF x.kind = "dict" /\ y.kind = "dict"
    THEN /\ Cardinality(DOMAIN x.d) = Cardinality(DOMAIN y.d)
         /\ \A k \in DOMAIN x.d : \E l \in DOMAIN y.d :
               PyEqScalar(k, l) /\ PyEqScalar(x.d[k], y.d[l])
    ELSE IF x.kind = "dict" \/ y.kind = "dict" THEN FALSE
    ELSE PyEqScalar(x, y)

(***************************************************************************)
(* The Model class of the model: a KeyField "id", a field "f" of one of    *)
(* the field types, required or not, and an IntegerField "d" with a        *)
(* default, like clicks = IntegerField(default=1000) of the tests.         *)
(***************************************************************************)
FieldTypes == {"CharField", "IntegerField", "FloatField", "BooleanField",
               "DictField"}
\* Field.__init__: required is True unless required=False was passed.
Field(type, required, default) ==
    [type |-> type, required |-> required, default |-> default]
FieldOrder == <<"id", "f", "d">>
FieldNames == {FieldOrder[i] : i \in 1..Len(FieldOrder)}
KeyFieldName == "id"
\* The fields an application assigns by item; d is left to its default.
AssignedNames == {"id", "f"}
ModelFields(type, required) ==
    [n \in FieldNames |->
        CASE n = "id" -> Field("KeyField", TRUE, PyNone)
          [] n = "f" -> Field(type, required, PyNone)
          [] n = "d" -> Field("IntegerField", TRUE, PyInt(1000))]
ModelClasses == {ModelFields(t, r) : t \in FieldTypes, r \in BOOLEAN}

\* 19.99, and a float of 13 significant digits: 1.000000000001.
LongFloat == PyFloat(<<1, 0, 0, 0, 0, 0, 0, 0, 0, 0, 0, 0, 1>>, 0)
\* The values an application gives to a field of a type.
ValuesOf(type) ==
    CASE type = "KeyField" -> {PyStr("u1")}
      [] type = "CharField" -> {PyStr("a"), PyUnicode("a"), PyUnicode(EAcute)}
      [] type = "IntegerField" -> {PyInt(0), PyInt(29)}
      [] type = "FloatField" -> {PyFloat(<<1, 9, 9, 9>>, 1), LongFloat}
      [] type = "BooleanField" -> {PyBool(TRUE), PyBool(FALSE)}
      [] type = "DictField" -> {PyDict(PyStr("a") :> PyStr("x")),
                                PyDict(PyInt(1) :> PyStr("x"))}

(***************************************************************************)
(* An instance of the Model.  Record.__setitem__ writes only to a Column   *)
(* that _original does not hold (its assert), and Model._marshal only to    *)
(* the Columns of modified names, so what an instance shows depends on the *)
(* values alone: items is the dict, columns and original are the values of *)
(* the Column objects of _columns and _original.                           *)
(***************************************************************************)
FreshInstance == [items |-> EmptyMap, columns |-> EmptyMap,
                  original |-> EmptyMap, modified |-> {}, deleted |-> {}]

\* Model.sanitize: the value as it is, None too.
ModelSanitize(value) == value

\* Record.__setitem__ of a Model instance: self.sanitize is Model.sanitize.
ModelSetItem(inst, name, v) ==
    LET value == ModelSanitize(v)
    IN IF name \in DOMAIN inst.original /\ PyEq(inst.original[name], value)
       THEN inst
       ELSE [inst EXCEPT !.items = Put(inst.items, name, value),
                         !.columns = Put(inst.columns, name, value),
                         !.deleted = @ \ {name},
                         !.modified = @ \cup {name}]

\* Field._get_default and Field.sanitize: None becomes the default.
GetDefault(field) == field.default
FieldSanitize(field, value) ==
    IF PyEq(value, PyNone) /\ ~PyEq(field.default, PyNone)
    THEN GetDefault(field) ELSE value

\* Field.__set__: instance.name = value
SetAttr(fields, inst, name, value) ==
    ModelSetItem(inst, name, FieldSanitize(fields[name], value))

(***************************************************************************)
(* str(), as Python 2 computes it.  Of a float it is "%.12g": the value    *)
(* rounded to SigDigits significant digits, without trailing zeros.        *)
(***************************************************************************)
SigDigits == 12

RECURSIVE StripZeros(_)
StripZeros(ds) ==
    IF Len(ds) > 1 /\ ds[Len(ds)] = 0
    THEN StripZeros(SubSeq(ds, 1, Len(ds) - 1)) ELSE ds

\* ds plus one unit in its last place; <<>> when every digit was a 9.
RECURSIVE Increment(_)
Increment(ds) ==
    IF ds = <<>> THEN <<>>
    ELSE IF ds[Len(ds)] < 9
    THEN [ds EXCEPT ![Len(ds)] = @ + 1]
    ELSE LET front == Increment(SubSeq(ds, 1, Len(ds) - 1))
         IN IF front = <<>> THEN <<>> ELSE Append(front, 0)

\* The float that "%.12g" shows.
RoundFloat(x) ==
    IF Len(x.sig) <= SigDigits THEN x
    ELSE LET kept == SubSeq(x.sig, 1, SigDigits)
             up == IF x.sig[SigDigits + 1] >= 5 THEN Increment(kept) ELSE kept
         IN IF up = <<>> THEN PyFloat(<<1>>, x.n + 1)
            ELSE PyFloat(StripZeros(up), x.n)

RECURSIVE DigitsText(_)
DigitsText(ds) ==
    IF ds = <<>> THEN "" ELSE ToString(Head(ds)) \o DigitsText(Tail(ds))

\* The digits before the point, filled with zeros, then the digits after
\* it, "0" when there are none.  The floats of the model are 1 or more.
FloatText(x) ==
    LET whole == x.n + 1
        padded == x.sig \o [i \in 1..(whole - Len(x.sig)) |-> 0]
        rest == SubSeq(padded, whole + 1, Len(padded))
    IN DigitsText(SubSeq(padded, 1, whole)) \o "."
         \o (IF rest = <<>> THEN "0" ELSE DigitsText(rest))

\* repr() of a string, an int or a unicode string inside a container.
PyRepr(x) ==
    CASE x.kind = "int" -> ToString(x.n)
      [] x.kind = "unicode" -> "u'" \o x.s \o "'"
      [] OTHER -> "'" \o x.s \o "'"

\* json.dumps of a key and of a value: a key that is a number is written
\* as a string.
JsonKey(k) == "\"" \o (IF k.kind = "int" THEN ToString(k.n) ELSE k.s) \o "\""
JsonValue(v) == IF v.kind = "int" THEN ToString(v.n) ELSE "\"" \o v.s \o "\""

\* The entries of a dict, each as key: value, joined by commas, the keys in
\* some one order; written as repr() or as JSON.
EntryText(k, v, json) ==
    IF json THEN JsonKey(k) \o ": " \o JsonValue(v)
    ELSE PyRepr(k) \o ": " \o PyRepr(v)
RECURSIVE EntriesText(_, _, _)
EntriesText(d, ks, json) ==
    IF ks = {} THEN ""
    ELSE LET k == CHOOSE x \in ks : TRUE
         IN IF ks = {k} THEN EntryText(k, d[k], json)
            ELSE EntryText(k, d[k], json) \o ", "
                   \o EntriesText(d, ks \ {k}, json)

DictStr(x) == "{" \o EntriesText(x.d, DOMAIN x.d, FALSE) \o "}"

StrOf(x) ==
    CASE x.kind = "none" -> "None"
      [] x.kind = "str" -> x.s
      [] x.kind = "int" -> ToString(x.n)
      [] x.kind = "bool" -> IF x.n = 1 THEN "True" ELSE "False"
      [] x.kind = "float" -> FloatText(RoundFloat(x))
      [] x.kind = "dict" -> DictStr(x)

(***************************************************************************)
(* json.dumps and json.loads (simplejson).  Every string read back is a    *)
(* unicode string.                                                         *)
(***************************************************************************)
JsonDumps(x) ==
    IF x.kind = "none" THEN "null"
    ELSE "{" \o EntriesText(x.d, DOMAIN x.d, TRUE) \o "}"

\* What json.loads makes of the text json.dumps wrote for x.
JsonUnicode(k) == IF k.kind = "int" THEN PyUnicode(ToString(k.n))
                  ELSE PyUnicode(k.s)
JsonRead(x) ==
    PyDict([k \in {JsonUnicode(j) : j \in DOMAIN x.d} |->
              LET j == CHOOSE i \in DOMAIN x.d : JsonUnicode(i) = k
                  v == x.d[j]
              IN IF v.kind = "int" THEN v ELSE PyUnicode(v.s)])

(***************************************************************************)
(* int(), float() and json.loads of a text: the value whose text it is,    *)
(* among the values the texts of the model can stand for.                  *)
(***************************************************************************)
MaxInt == 1000

RECURSIVE IntDigits(_)
IntDigits(i) == IF i < 10 THEN <<i>> ELSE Append(IntDigits(i \div 10), i % 10)

ParseInt(text) ==
    IF \E i \in 0..MaxInt : ToString(i) = text
    THEN PyInt(CHOOSE i \in 0..MaxInt : ToString(i) = text)
    ELSE PyRaise("ValueError")

FloatsRead == {RoundFloat(x) : x \in ValuesOf("FloatField")}
ParseFloat(text) ==
    IF \E x \in FloatsRead : FloatText(x) = text
    THEN CHOOSE x \in FloatsRead : FloatText(x) = text
    ELSE IF ParseInt(text).kind = "int"
    THEN LET ds == IntDigits(ParseInt(text).n)
         IN PyFloat(StripZeros(ds), Len(ds) - 1)
    ELSE PyRaise("ValueError")

JsonLoads(x) ==
    IF x.kind \notin {"str", "unicode"} THEN PyRaise("TypeError")
    ELSE IF x.s = "null" THEN PyNone
    ELSE IF \E v \in ValuesOf("DictField") : JsonDumps(v) = x.s
    THEN JsonRead(CHOOSE v \in ValuesOf("DictField") : JsonDumps(v) = x.s)
    ELSE PyRaise("ValueError")

\* int(value)
IntOf(x) ==
    CASE x.kind \in {"int", "bool"} -> PyInt(x.n)
      [] x.kind \in {"str", "unicode"} -> ParseInt(x.s)
      [] x.kind = "float" ->
           PyInt(DigitsToInt(SubSeq(x.sig \o [i \in 1..x.n |-> 0], 1, x.n + 1)))
      [] OTHER -> PyRaise("TypeError")

\* float(value)
FloatOf(x) ==
    CASE x.kind = "float" -> x
      [] x.kind \in {"int", "bool"} ->
           PyFloat(StripZeros(IntDigits(x.n)), Len(IntDigits(x.n)) - 1)
      [] x.kind \in {"str", "unicode"} -> ParseFloat(x.s)
      [] OTHER -> PyRaise("TypeError")

\* bool(value)
Truthy(x) ==
    CASE x.kind = "none" -> FALSE
      [] x.kind \in {"str", "unicode"} -> x.s # ""
      [] x.kind \in {"int", "bool"} -> x.n # 0
      [] x.kind = "float" -> x.sig # <<0>>
      [] x.kind = "dict" -> DOMAIN x.d # {}

(***************************************************************************)
(* The encode and decode of the field classes.                             *)
(***************************************************************************)
Encode(field, x) ==
    CASE field.type = "BooleanField" -> PyStr(IF Truthy(x) THEN "1" ELSE "0")
      [] field.type = "DictField" -> PyStr(JsonDumps(x))
      [] OTHER -> IF x.kind = "unicode" THEN PyStr(Utf8(x.s))
                  ELSE PyStr(StrOf(x))

Decode(field, x) ==
    CASE field.type = "IntegerField" -> IntOf(x)
      [] field.type = "FloatField" -> FloatOf(x)
      [] field.type = "BooleanField" ->
           PyBool(PyEq(x, PyBool(TRUE)) \/ PyEq(x, PyStr("1")))
      [] field.type = "DictField" ->
           IF x.kind = "dict" THEN x ELSE JsonLoads(x)
      [] OTHER -> x

\* Field.__get__: instance.name
GetAttr(fields, inst, name) ==
    Decode(fields[name],
           IF name \in DOMAIN inst.items THEN inst.items[name]
           ELSE GetDefault(fields[name]))

(***************************************************************************)
(* The operations of a Model instance.  The store holds the rows of the    *)
(* Model's column family: row key -> column name -> value (a byte string). *)
(***************************************************************************)
ModelResult(inst, st, e, cs) == [inst |-> inst, store |-> st, err |-> e,
                                 calls |-> cs]

\* Record.__delitem__ of a Model instance.
ModelDelItem(inst, name) ==
    [inst EXCEPT !.items = Drop(inst.items, name),
                 !.columns = Drop(inst.columns, name),
                 !.deleted = @ \cup {name},
                 !.modified = @ \ {name}]

\* Model._clean: every item deleted, the four maps emptied.
ModelClean(inst) == FreshInstance

\* The loop of Model.save over self.fields.items(), from the i-th field of
\* the dict's order on: an absent field is set to its default, or is an
\* error when it is required and has none.
RECURSIVE FillDefaults(_, _, _, _)
FillDefaults(fields, inst, order, i) ==
    IF i > Len(order) THEN [inst |-> inst, err |-> "none"]
    ELSE LET name == order[i]
             field == fields[name]
         IN IF name \in DOMAIN inst.items
            THEN FillDefaults(fields, inst, order, i + 1)
            ELSE IF ~PyEq(field.default, PyNone)
            THEN LET value == GetAttr(fields, inst, name)
                 IN FillDefaults(fields, ModelSetItem(inst, name, value),
                                 order, i + 1)
            ELSE IF field.required
            THEN [inst |-> inst, err |-> "ValueError"]
            ELSE FillDefaults(fields, inst, order, i + 1)

\* Model.get_key: Record.sanitize of the key field's value.
ModelKey(inst) ==
    LET value == inst.items[KeyFieldName]
    IN IF value.kind = "unicode" THEN Utf8(value.s) ELSE StrOf(value)

\* Model._marshal: the values of the changed Columns are encoded in place.
ModelMarshal(fields, inst) ==
    [inst EXCEPT !.columns = [n \in DOMAIN @ |->
        IF n \in inst.modified THEN Encode(fields[n], @[n]) ELSE @[n]]]

ModelRemoveCall(k, name) == [op |-> "remove", key |-> k, columns |-> {name}]
ModelInsertCall(k, names) ==
    [op |-> "batch_insert", key |-> k, columns |-> names]
ModelSliceCall(k) == [op |-> "get_slice", key |-> k, columns |-> {}]

\* What the cluster holds after the removes and the batch_insert of a save.
Written(st, k, inst) ==
    LET old == IF k \in DOMAIN st THEN st[k] ELSE EmptyMap
        kept == (DOMAIN old) \ inst.deleted
    IN Put(st, k, [n \in kept \cup inst.modified |->
                      IF n \in inst.modified THEN inst.columns[n].s
                      ELSE old[n]])

\* Model.save: the loop over the fields, then Record.save, which for a Model
\* has neither mirrors nor indexes.
ModelSave(fields, inst, order, st) ==
    LET filled == FillDefaults(fields, inst, order, 1)
        i0 == filled.inst
    IN IF filled.err # "none" THEN ModelResult(i0, st, filled.err, {})
       ELSE IF KeyFieldName \notin DOMAIN i0.items
       THEN ModelResult(i0, st, "KeyError", {})
       ELSE IF i0.items[KeyFieldName] = PyNone
       THEN ModelResult(i0, st, "InvalidValue", {})
       ELSE
       LET k == ModelKey(i0)
           i1 == ModelMarshal(fields, i0)
           removes == {ModelRemoveCall(k, n) : n \in i1.deleted}
           inserts == IF i1.modified = {} THEN {}
                      ELSE {ModelInsertCall(k, i1.modified)}
       IN ModelResult([i1 EXCEPT !.modified = {}, !.deleted = {},
                                 !.original = i1.columns],
                      Written(st, k, i1), "none", removes \cup inserts)

\* Model(key_field=k): Model.update sets the key field, then load(self.key)
\* cleans the instance and injects the columns of the row.
ModelLoad(fields, k, st) ==
    LET i0 == SetAttr(fields, FreshInstance, KeyFieldName,
                      Decode(fields[KeyFieldName], k))
        rowkey == ModelKey(i0)
        cols == [n \in DOMAIN st[rowkey] |-> PyStr(st[rowkey][n])]
    IN ModelResult([ModelClean(i0) EXCEPT !.items = cols, !.original = cols,
                                          !.columns = cols],
                   st, "none", {ModelSliceCall(rowkey)})

(***************************************************************************)
(* ModelType.__new__: what a class statement with a Model base gives.      *)
(* A class is the fields it holds (name -> class of the Field), the name   *)
(* of its key field and whether a Meta is found on it.                     *)
(***************************************************************************)
TypeNames == {"id", "f", "key"}
\* What a class body binds a name to: a KeyField, another Field, or
\* something that is no Field.
AttrKinds == {"KeyField", "CharField", "other"}
IsField(kind) == kind \in {"KeyField", "CharField"}
NoKeyField == ""

\* Model itself: ModelType made it without fields, _key_field and Meta.
ModelBase == [fields |-> EmptyMap, key_field |-> NoKeyField, meta |-> FALSE]

\* fields, were a Field bound again in the body to take the place of the
\* inherited one.
KeepsRedeclared(inherited, attrs) ==
    [n \in (DOMAIN inherited)
           \cup {a \in DOMAIN attrs : IsField(attrs[a])} |->
        IF n \in DOMAIN attrs /\ IsField(attrs[n]) THEN attrs[n]
        ELSE inherited[n]]
\* fields: the base's, less the names the body binds to a Field again, plus
\* the names the body binds to a Field for the first time.
CollectFields(inherited, attrs) ==
    LET fresh == {n \in DOMAIN attrs :
                     IsField(attrs[n]) /\ n \notin DOMAIN inherited}
        dropped == {n \in DOMAIN attrs :
                       IsField(attrs[n]) /\ n \in DOMAIN inherited}
    IN [n \in ((DOMAIN inherited) \ dropped) \cup fresh |->
           IF n \in fresh THEN attrs[n] ELSE inherited[n]]

\* The loop over fields.items() raises at the second KeyField in any order
\* of the dict, so the order is no input.
ModelTypeNew(base, attrs, meta) ==
    LET fields == CollectFields(base.fields, attrs)
        keys == {n \in DOMAIN fields : fields[n] = "KeyField"}
        failed(e) == [err |-> e, fields |-> EmptyMap, key_field |-> NoKeyField]
    IN IF Cardinality(keys) > 1 THEN failed("NameError")
       ELSE IF "key" \in DOMAIN fields THEN failed("AttributeError")
       ELSE IF keys = {} THEN failed("NameError")
       ELSE IF ~(meta \/ base.meta) THEN failed("Exception")
       ELSE [err |-> "none", fields |-> fields,
             key_field |-> CHOOSE n \in keys : TRUE]

ClassBodies == UNION {[S -> AttrKinds] : S \in SUBSET TypeNames}
NoDef == [inherited |-> EmptyMap, attrs |-> EmptyMap, meta |-> FALSE]
NoClass == [err |-> "init", fields |-> EmptyMap, key_field |-> NoKeyField]

\* No class has been defined.
TypeIdle ==
    /\ tbase = ModelBase
    /\ tdef = NoDef
    /\ tres = NoClass

NoModelOp(name) == [name |-> name, field |-> "", value |-> PyNone]

\* No Model instance is in use.
ModelIdle ==
    /\ cls = ModelFields("CharField", TRUE)
    /\ minst = FreshInstance
    /\ ainst = FreshInstance
    /\ store = EmptyMap
    /\ mop = NoModelOp("init")
    /\ merr = "none"
    /\ mcalls = {}

Init == RecordInit /\ rows = 0 /\ IterIdle /\ ModelIdle /\ TypeIdle

\* record[item] = value
SetAct ==
    /\ \E item \in Names, value \in Values :
          Become(SetItem(Self, item, value, now), {"None"},
                 [NoOp("set") EXCEPT !.item = item, !.value = value])
    /\ UNCHANGED <<now, notrecord>>

\* del record[item]
DelAct ==
    /\ \E item \in Names :
          Become(DelItem(Self, item), {"None"},
                 [NoOp("delete") EXCEPT !.item = item])
    /\ UNCHANGED <<now, notrecord>>

\* record.set_key(key)
SetKeyAct ==
    /\ \E k \in RowKeys :
          Become(Result([Self EXCEPT !.key = MakeKey(k)], "none", <<>>, <<>>),
                 {"None"}, NoOp("set_key"))
    /\ UNCHANGED <<now, notrecord>>

\* record.load(key, consistency)
LoadAct ==
    /\ \E k \in RowKeys, cols \in StoredRows, ord \in OrdersOf(DOMAIN items) :
          Become(Load(Self, k, cols, FALSE, ord), Consistencies, NoOp("load"))
    /\ UNCHANGED <<now, notrecord>>

\* record.load(key, consistency) when the slice read raises
LoadFails ==
    /\ \E k \in RowKeys, ord \in OrdersOf(DOMAIN items) :
          Become(Load(Self, k, EmptyMap, TRUE, ord), Consistencies,
                 NoOp("load"))
    /\ UNCHANGED <<now, notrecord>>

\* record.save(consistency)
SaveAct ==
    /\ \E f \in Faults(NumCalls(Self)), ord \in OrdersOf(DOMAIN deleted) :
          Become(Save(Self, Required, f, ord, now), Consistencies,
                 [NoOp("save") EXCEPT !.fault = f])
    /\ UNCHANGED <<now, notrecord>>

\* record.remove(consistency)
RemoveAct ==
    /\ \E fails \in BOOLEAN, ord \in OrdersOf(DOMAIN items) :
          Become(Remove(Self, fails, ord, now), Consistencies, NoOp("remove"))
    /\ UNCHANGED <<now, notrecord>>

\* record.revert()
RevertAct ==
    /\ Become(Result(Revert(Self), "none", <<>>, <<>>), {"None"},
              NoOp("revert"))
    /\ UNCHANGED <<now, notrecord>>

\* Time passes between two operations.
Tick ==
    /\ now < MaxClock
    /\ now' = now + 1
    /\ UNCHANGED <<recvars, op, err, calls, indexed, notrecord>>

Next ==
    \/ SetAct
    \/ DelAct
    \/ SetKeyAct
    \/ LoadAct
    \/ LoadFails
    \/ SaveAct
    \/ RemoveAct
    \/ RevertAct
    \/ Tick

Spec == Init /\ [][Next]_vars

(***************************************************************************)
(* The steps of one enumeration.  The consumer takes every entry the       *)
(* generator yields and resumes it until it is exhausted.                  *)
(***************************************************************************)
\* self._iter_columns(start, limit, chunk_size) is created.
\* The caller holds the control: no generator is inside a step.  A listing
\* of the keys is followed on its own, on a container not used before.
AtCaller == pc \in {"idle", "yielded", "done", "raised"} /\ entry # "iterkeys"

\* A generator is made and run to its first request; the one before it,
\* finished or not, is dropped.
Begin(e, st, lim, chunk) ==
    /\ AtCaller
    /\ Len(requests) < MaxRequests
    /\ entry' = e
    /\ start' = st
    /\ limit' = lim
    /\ chunk_size' = chunk
    /\ returned' = 0
    /\ scols' = <<>>
    /\ pos' = 0
    /\ scol' = Unbound
    /\ yielded' = <<>>
    /\ pc' = "fetch"
    /\ UNCHANGED <<rows, local, cache, cop, cerr, requests, sent>>

\* for scf in container
CallIter ==
    /\ Begin("__iter__", NoStart, NoLimit, DefaultChunkSize)
    /\ UNCHANGED notiter

\* container.load_all()
CallLoadAll ==
    /\ Begin("load_all", NoStart, NoLimit, LoadAllChunkSize)
    /\ UNCHANGED notiter

\* container.iterkeys(start, limit, chunk_size)
CallIterKeys ==
    /\ pc = "idle" /\ cop = NoCall
    /\ \E st \in Starts, lim \in Limits, chunk \in ChunkSizes :
          Begin("iterkeys", st, lim, chunk)
    /\ UNCHANGED notiter

\* The head of "while True": one get_slice; an empty answer ends the generator.
Fetch ==
    /\ pc = "fetch"
    /\ requests' = IF Len(requests) < MaxRequests
                   THEN Append(requests, SliceRange) ELSE requests
    /\ scols' = GetSlice(rows)
    /\ pos' = Fudge(start) + 1
    /\ pc' = IF scols' = <<>> THEN "done" ELSE "page"
    /\ UNCHANGED <<rows, local, cache, cop, cerr, entry, start, limit,
                   chunk_size, returned, scol, yielded, sent>>
    /\ UNCHANGED notiter

\* One round of "for scol in scols[fudge:]" up to its yield.  __iter__ and
\* load_all put the entry they are handed into the local map.
Yield ==
    /\ pc = "page"
    /\ pos <= Len(scols)
    /\ returned' = returned + 1
    /\ scol' = scols[pos]
    /\ yielded' = Append(yielded, scols[pos])
    /\ cache' = Put(cache, CacheKey(scols[pos]), scols[pos])
    /\ local' = CASE entry = "__iter__" -> Materialize(local, scols[pos])
                  [] entry = "load_all" ->
                        Instantiate(local, scols[pos], scols[pos])
                  [] OTHER -> local
    /\ pc' = "yielded"
    /\ UNCHANGED <<rows, cop, cerr, entry, start, limit, chunk_size, scols,
                   pos, requests, sent>>
    /\ UNCHANGED notiter

\* The generator is resumed after its yield: the test of the limit.
Resume ==
    /\ pc = "yielded"
    /\ IF LimitReached(returned, limit)
       THEN pc' = "done" /\ pos' = pos
       ELSE pc' = "page" /\ pos' = pos + 1
    /\ UNCHANGED <<rows, local, cache, cop, cerr, entry, start, limit,
                   chunk_size, returned, scols, scol, yielded, requests, sent>>
    /\ UNCHANGED notiter

\* The loop over the page is through: start = scol.name, which raises when
\* the loop bound no scol; then a short page ends the generator.
EndPage ==
    /\ pc = "page"
    /\ pos > Len(scols)
    /\ IF scol = Unbound
       THEN pc' = "raised" /\ start' = start
       ELSE /\ start' = scol
            /\ pc' = IF ShortPage(scols, chunk_size) THEN "done" ELSE "fetch"
    /\ UNCHANGED <<rows, local, cache, cop, cerr, entry, limit, chunk_size,
                   returned, scols, pos, scol, yielded, requests, sent>>
    /\ UNCHANGED notiter

\* container[k], for a super key the row holds
CallGetItem ==
    /\ AtCaller
    /\ \E k \in AskedKeys \cap (1..rows) :
       \E res \in {GetItem(local, cache, k)} :
          /\ local' = res.local
          /\ cache' = res.cache
          /\ sent' = res.sent
          /\ cerr' = res.err
          /\ cop' = [name |-> "__getitem__", key |-> k, arg |-> NoNested]
    /\ UNCHANGED <<rows, entry, pc, start, limit, chunk_size, returned, scols,
                   pos, scol, yielded, requests>>
    /\ UNCHANGED notiter

\* container[k] = value
CallSetItem ==
    /\ AtCaller
    /\ \E k \in AskedKeys :
       \E res \in {ContainerSetItem(local, k)} :
          /\ local' = res.local
          /\ cerr' = res.err
          /\ sent' = <<>>
          /\ cop' = [name |-> "__setitem__", key |-> k, arg |-> NoNested]
    /\ UNCHANGED <<rows, cache, entry, pc, start, limit, chunk_size, returned,
                   scols, pos, scol, yielded, requests>>
    /\ UNCHANGED notiter

IterInit ==
    /\ RecordInit
    /\ rows \in 0..MaxRows
    /\ IterIdle
    /\ ModelIdle
    /\ TypeIdle

IterNext ==
    \/ CallIter
    \/ CallLoadAll
    \/ CallIterKeys
    \/ Fetch
    \/ Yield
    \/ Resume
    \/ EndPage
    \/ CallGetItem
    \/ CallSetItem

IterSpec == IterInit /\ [][IterNext]_vars

\* A caller that keeps asking a generator for its next entry: each step of
\* the generator that can be taken is taken.
IterLive ==
    /\ IterSpec
    /\ WF_vars(Fetch) /\ WF_vars(Yield) /\ WF_vars(Resume) /\ WF_vars(EndPage)

(***************************************************************************)
(* A container the application gets children of, appends children to,      *)
(* edits the children of and saves.                                        *)
(***************************************************************************)
\* container.append(nested)
CallAppend ==
    /\ AtCaller
    /\ \E n \in NestedObjects :
       \E res \in {ContainerAppend(local, n)} :
          /\ local' = res.local
          /\ cerr' = res.err
          /\ sent' = <<>>
          /\ cop' = [name |-> "append", key |-> n.superkey, arg |-> n]
    /\ UNCHANGED <<rows, cache, entry, pc, start, limit, chunk_size, returned,
                   scols, pos, scol, yielded, requests>>
    /\ UNCHANGED notiter

\* container[k][n] = value, for a child the container holds
CallChildSet ==
    /\ AtCaller
    /\ \E k \in DOMAIN local, n \in Names :
          /\ local' = Put(local, k, ChildSet(local[k], n))
          /\ cop' = [name |-> "child.__setitem__", key |-> k, arg |-> NoNested]
    /\ cerr' = "none"
    /\ sent' = <<>>
    /\ UNCHANGED <<rows, cache, entry, pc, start, limit, chunk_size, returned,
                   scols, pos, scol, yielded, requests>>
    /\ UNCHANGED notiter

\* del container[k][n], for a child the container holds
CallChildDel ==
    /\ AtCaller
    /\ \E k \in DOMAIN local, n \in Names :
          /\ local' = Put(local, k, ChildDel(local[k], n))
          /\ cop' = [name |-> "child.__delitem__", key |-> k, arg |-> NoNested]
    /\ cerr' = "none"
    /\ sent' = <<>>
    /\ UNCHANGED <<rows, cache, entry, pc, start, limit, chunk_size, returned,
                   scols, pos, scol, yielded, requests>>
    /\ UNCHANGED notiter

\* container.save()
CallSave ==
    /\ AtCaller
    /\ \E resolves \in BOOLEAN :
       \E res \in {ContainerSave(local, resolves)} :
          /\ local' = res.local
          /\ cerr' = res.err
          /\ sent' = res.sent
    /\ cop' = [name |-> "save", key |-> 0, arg |-> NoNested]
    /\ UNCHANGED <<rows, cache, entry, pc, start, limit, chunk_size, returned,
                   scols, pos, scol, yielded, requests>>
    /\ UNCHANGED notiter

\* The row holds no more super columns than the application asks for.
SuperInit ==
    /\ RecordInit
    /\ rows \in 0..Cardinality(AskedKeys)
    /\ IterIdle
    /\ ModelIdle
    /\ TypeIdle

SuperNext ==
    \/ CallGetItem
    \/ CallAppend
    \/ CallChildSet
    \/ CallChildDel
    \/ CallSave

SuperSpec == SuperInit /\ [][SuperNext]_vars

(***************************************************************************)
(* A Model instance as a state machine.  The class is drawn when the       *)
(* behaviour starts.                                                       *)
(***************************************************************************)
\* m[name] = value
MSetItem ==
    /\ \E name \in AssignedNames :
       \E value \in ValuesOf(cls[name].type) \cup {PyNone} :
          /\ minst' = ModelSetItem(minst, name, value)
          /\ mop' = [name |-> "set", field |-> name, value |-> value]
    /\ merr' = "none"
    /\ mcalls' = {}
    /\ ainst' = FreshInstance
    /\ UNCHANGED <<cls, store>>
    /\ UNCHANGED notmodel

\* m.name = value
MSetAttr ==
    /\ \E name \in FieldNames :
       \E value \in ValuesOf(cls[name].type) \cup {PyNone} :
          /\ minst' = SetAttr(cls, minst, name, value)
          /\ mop' = [name |-> "setattr", field |-> name, value |-> value]
    /\ merr' = "none"
    /\ mcalls' = {}
    /\ ainst' = FreshInstance
    /\ UNCHANGED <<cls, store>>
    /\ UNCHANGED notmodel

\* del m[name]
MDelItem ==
    /\ \E name \in DOMAIN minst.items :
          /\ minst' = ModelDelItem(minst, name)
          /\ mop' = [name |-> "del", field |-> name, value |-> PyNone]
    /\ merr' = "none"
    /\ mcalls' = {}
    /\ ainst' = FreshInstance
    /\ UNCHANGED <<cls, store>>
    /\ UNCHANGED notmodel

\* m.save()
MSave ==
    /\ \E order \in OrdersOf(FieldNames) :
       \E res \in {ModelSave(cls, minst, order, store)} :
          /\ minst' = res.inst
          /\ store' = res.store
          /\ merr' = res.err
          /\ mcalls' = res.calls
    /\ mop' = NoModelOp("save")
    /\ ainst' = FreshInstance
    /\ UNCHANGED cls
    /\ UNCHANGED notmodel

\* a = Model(key_field=k), for the key of a row of the store
MLoadNew ==
    /\ \E k \in {v \in ValuesOf("KeyField") : StrOf(v) \in DOMAIN store} :
       \E res \in {ModelLoad(cls, k, store)} :
          /\ ainst' = res.inst
          /\ merr' = res.err
          /\ mcalls' = res.calls
    /\ mop' = NoModelOp("load")
    /\ UNCHANGED <<cls, minst, store>>
    /\ UNCHANGED notmodel

ModelInit ==
    /\ RecordInit
    /\ rows = 0
    /\ IterIdle
    /\ cls \in ModelClasses
    /\ minst = FreshInstance
    /\ ainst = FreshInstance
    /\ store = EmptyMap
    /\ mop = NoModelOp("init")
    /\ merr = "none"
    /\ mcalls = {}
    /\ TypeIdle

ModelNext ==
    \/ MSetItem
    \/ MSetAttr
    \/ MDelItem
    \/ MSave
    \/ MLoadNew

ModelSpec == ModelInit /\ [][ModelNext]_vars

(***************************************************************************)
(* The definition of Model classes as a state machine: each class          *)
(* statement derives from the class the last successful one made.          *)
(***************************************************************************)
\* class C(base): <attrs>, with or without a Meta of its own
DefineClass ==
    /\ \E attrs \in ClassBodies, meta \in BOOLEAN :
       \E res \in {ModelTypeNew(tbase, attrs, meta)} :
          /\ tdef' = [inherited |-> tbase.fields, attrs |-> attrs,
                      meta |-> meta \/ tbase.meta]
          /\ tres' = res
          /\ tbase' = IF res.err = "none"
                      THEN [fields |-> res.fields,
                            key_field |-> res.key_field, meta |-> TRUE]
                      ELSE tbase
    /\ UNCHANGED nottype

TypeInit ==
    /\ RecordInit
    /\ rows = 0
    /\ IterIdle
    /\ ModelIdle
    /\ TypeIdle

TypeNext ==
    \/ DefineClass

TypeSpec == TypeInit /\ [][TypeNext]_vars

(***************************************************************************)
(* What the claims speak of.                                               *)
(***************************************************************************)
\* A step of the operation called name: every operation leaves the clock
\* alone and Tick leaves op alone.
StepOf(name) == now' = now /\ op'.name = name

\* Record.is_modified
IsModified(r) ==
    Cardinality(DOMAIN r.modified) + Cardinality(DOMAIN r.deleted) # 0

\* marshal()'s changed, as name -> value, and the names of its deleted paths.
ChangedValues(r) ==
    LET ch == MarshalChanged(r)
    IN [n \in {r.heap[ch[i]].name : i \in 1..Len(ch)} |->
          r.heap[r.columns[n]].value]
DeletedNames(r) ==
    LET del == MarshalDeleted(r, KeysIn(r.deleted, NameSeq))
    IN {del[i].column : i \in 1..Len(del)}

\* original holds exactly the names, values and timestamps current holds.
OriginalEqualsCurrent(r) ==
    /\ DOMAIN r.original = DOMAIN r.columns
    /\ \A n \in DOMAIN r.original :
          r.heap[r.original[n]] = r.heap[r.columns[n]]

\* The calls of the last operation under the record's own key.
OwnCalls == SelectSeq(calls, LAMBDA c : c.key = key)

(***************************************************************************)
(* C1: in every reachable state no column name is both in the modified    *)
(* set and in the deleted set.                                             *)
(***************************************************************************)
C1_MutualExclusion == (DOMAIN modified) \cap (DOMAIN deleted) = {}

\* One name pending an insert while another is pending a delete.
C1_Witness ==
    /\ DOMAIN modified # {}
    /\ DOMAIN deleted # {}
    /\ op.name = "delete"
    /\ err = "none"

(***************************************************************************)
(* C2 (as claimed): right after set(n, v) returns, marshal() lists n in    *)
(* changed with the value v, unless v equals the value original holds for  *)
(* n, and then changed does not list n.                                    *)
(***************************************************************************)
C2_SetThenMarshal ==
    (op.name = "set" /\ err = "none") =>
       LET n == op.item
           v == Sanitize(op.value)
       IN IF n \in DOMAIN original /\ heap[original[n]].value = v
          THEN n \notin DOMAIN ChangedValues(Self)
          ELSE n \in DOMAIN ChangedValues(Self) /\ ChangedValues(Self)[n] = v

(***************************************************************************)
(* C3 (as claimed): after delete(n) of a name original does not hold, the  *)
(* deleted paths of marshal() do not list n.                               *)
(***************************************************************************)
C3_NoTombstoneForUnsaved ==
    (op.name = "delete" /\ err = "none" /\ key # NoKey
        /\ op.item \notin DOMAIN original)
       => op.item \notin DeletedNames(Self)

(***************************************************************************)
(* C4 (as claimed): a set(n, v) of a name original holds leaves the value  *)
(* and timestamp of original[n] as they were, and afterwards current[n]    *)
(* is another object than original[n].                                     *)
(***************************************************************************)
C4_CopyOnWriteAlways ==
    [][(StepOf("set") /\ err' # "InvalidValue" /\ op'.item \in DOMAIN original)
        => LET n == op'.item
           IN /\ n \in DOMAIN original'
              /\ heap'[original'[n]] = heap[original[n]]
              /\ n \in DOMAIN columns'
              /\ columns'[n] # original'[n]]_vars

(***************************************************************************)
(* C4 (amended): a set(n, v) of a name original holds leaves the value and *)
(* timestamp of original[n] as they were; and unless str(v) is the value   *)
(* original[n] holds (the set is then a no-op), current[n] is afterwards   *)
(* another object than original[n].                                        *)
(***************************************************************************)
C4_CopyOnWrite ==
    [][(StepOf("set") /\ err' # "InvalidValue" /\ op'.item \in DOMAIN original)
        => LET n == op'.item
           IN /\ n \in DOMAIN original'
              /\ heap'[original'[n]] = heap[original[n]]
              /\ (heap[original[n]].value # Sanitize(op'.value)
                    => /\ n \in DOMAIN columns'
                       /\ columns'[n] # original'[n])]_vars

\* A loaded or saved name has been set to another value: the copy holds it.
C4_Witness ==
    /\ op.name = "set"
    /\ err = "none"
    /\ op.item \in DOMAIN original
    /\ op.item \in DOMAIN columns
    /\ columns[op.item] # original[op.item]
    /\ heap[columns[op.item]].value = Sanitize(op.value)
    /\ heap[original[op.item]].value # Sanitize(op.value)
    /\ heap[original[op.item]].timestamp < heap[columns[op.item]].timestamp

(***************************************************************************)
(* C6: a save of a record whose modified and deleted sets are empty issues *)
(* no storage call.                                                        *)
(***************************************************************************)
C6_CleanSaveNoCalls ==
    [][(StepOf("save") /\ DOMAIN modified = {} /\ DOMAIN deleted = {})
        => calls' = <<>>]_vars

\* A loaded record saved as it is: nothing was sent, the index was updated.
C6_Witness ==
    /\ op.name = "save"
    /\ err = "none"
    /\ calls = <<>>
    /\ indexed = Indexes
    /\ DOMAIN original # {}

(***************************************************************************)
(* C7: when a mirror's save raises and the index append does not, save has *)
(* still appended to the index, leaves modified and deleted empty and      *)
(* original equal to current, and raises the mirror's error.               *)
(***************************************************************************)
C7_FanOutIsolation ==
    (op.name = "save" /\ key # NoKey /\ op.fault.p = 0
        /\ op.fault.mirror # 0 /\ op.fault.index = 0)
       => /\ err = "MirrorError"
          /\ indexed = Indexes
          /\ DOMAIN modified = {}
          /\ DOMAIN deleted = {}
          /\ OriginalEqualsCurrent(Self)

\* The primary write went out, then a storage call of the mirror raised.
C7_Witness ==
    /\ op.name = "save"
    /\ err = "MirrorError"
    /\ op.fault.at # 0
    /\ Len(OwnCalls) > 0
    /\ Len(calls) > Len(OwnCalls)
    /\ indexed = Indexes
    /\ DOMAIN columns # {}

(***************************************************************************)
(* C8: on a record with a key, a save with one name n pending an insert    *)
(* and nothing pending a delete sends, under the record's key, exactly one *)
(* batch_insert whose columns are n with its current value, and no remove; *)
(* a save with n pending a delete and nothing pending an insert sends      *)
(* exactly one remove, of the path of column n, and no batch_insert.       *)
(***************************************************************************)
C8_SetSaveDeleteSave ==
    [][(StepOf("save") /\ key # NoKey /\ op'.fault = NoFault)
        => /\ \A n \in Names :
                (DOMAIN modified = {n} /\ DOMAIN deleted = {})
                   => /\ Len(OwnCalls') = 1
                      /\ OwnCalls'[1].op = "batch_insert"
                      /\ OwnCalls'[1].columns =
                            {[name |-> n, value |-> items[n],
                              timestamp |-> heap[columns[n]].timestamp]}
           /\ \A n \in Names :
                (DOMAIN modified = {} /\ DOMAIN deleted = {n})
                   => /\ Len(OwnCalls') = 1
                      /\ OwnCalls'[1].op = "remove"
                      /\ OwnCalls'[1].path = GetPath(key, n)]_vars

\* The second save of the scenario: the one column was removed again.
C8_Witness ==
    /\ op.name = "save"
    /\ err = "none"
    /\ Len(OwnCalls) = 1
    /\ OwnCalls[1].op = "remove"
    /\ DOMAIN original = {}
    /\ DOMAIN items = {}

(***************************************************************************)
(* C9: after a save that returned, modified and deleted are empty,         *)
(* is_modified() is false and original holds what current holds.           *)
(***************************************************************************)
C9_CleanAfterSave ==
    (op.name = "save" /\ err = "none")
       => /\ DOMAIN modified = {}
          /\ DOMAIN deleted = {}
          /\ ~IsModified(Self)
          /\ OriginalEqualsCurrent(Self)

\* A save that sent both a remove and a batch_insert and returned.
C9_Witness ==
    /\ op.name = "save"
    /\ err = "none"
    /\ \E i, j \in 1..Len(OwnCalls) :
          OwnCalls[i].op = "remove" /\ OwnCalls[j].op = "batch_insert"
    /\ DOMAIN original # {}

(***************************************************************************)
(* C10: a save of a record without a key raises MissingKey, issues no      *)
(* storage call, appends to no index and changes nothing of the record.    *)
(***************************************************************************)
C10_SaveWithoutKey ==
    [][(StepOf("save") /\ key = NoKey)
        => /\ err' = "MissingKey"
           /\ calls' = <<>>
           /\ indexed' = <<>>
           /\ UNCHANGED recvars]_vars

\* A record with pending edits and no key was saved.
C10_Witness ==
    /\ op.name = "save"
    /\ err = "MissingKey"
    /\ DOMAIN modified # {}
    /\ DOMAIN deleted # {}

(***************************************************************************)
(* C5 (as claimed): when the enumeration of a container (for scf in        *)
(* container, chunk_size 10) is exhausted, it has yielded every super      *)
(* column of the row exactly once, in store order.                         *)
(***************************************************************************)
C5_EnumeratesEveryEntryOnce ==
    (entry = "__iter__" /\ pc = "done") => yielded = GetSlice(rows)

(***************************************************************************)
(* C11 (as claimed): a remove of a record without a key raises MissingKey  *)
(* and issues no storage call.                                             *)
(***************************************************************************)
C11_RemoveWithoutKey ==
    [][(StepOf("remove") /\ key = NoKey)
        => /\ err' = "MissingKey"
           /\ calls' = <<>>]_vars

(***************************************************************************)
(* C12 (as claimed): m[name] = None raises InvalidValue, on a Model        *)
(* instance too, and leaves the instance as it was.                        *)
(***************************************************************************)
C12_NoneIsRefused ==
    [][(mop'.name = "set" /\ mop'.value = PyNone)
        => /\ merr' = "InvalidValue"
           /\ minst' = minst]_vars

(***************************************************************************)
(* C13 (as claimed): a save while a required field is absent raises, makes *)
(* no storage call and leaves the instance and the store exactly as they   *)
(* were.                                                                   *)
(***************************************************************************)
RequiredAbsent(fields, inst) ==
    \E n \in DOMAIN fields : /\ fields[n].required
                             /\ fields[n].default = PyNone
                             /\ n \notin DOMAIN inst.items

C13_InvalidSaveChangesNothing ==
    [][(mop'.name = "save" /\ RequiredAbsent(cls, minst))
        => /\ merr' = "ValueError"
           /\ mcalls' = {}
           /\ store' = store
           /\ minst' = minst]_vars

(***************************************************************************)
(* C20 (as claimed): after m.save(), an instance loaded anew by the same   *)
(* key reads, for every field that m holds a value of, a value equal to    *)
(* the one read from m.                                                    *)
(***************************************************************************)
SavedAndLoaded ==
    /\ mop.name = "load"
    /\ merr = "none"
    /\ minst.modified = {}
    /\ minst.deleted = {}

C20_StoreRoundTrip ==
    SavedAndLoaded =>
        \A name \in DOMAIN minst.items :
            minst.items[name] # PyNone =>
                /\ GetAttr(cls, ainst, name).kind # "raise"
                /\ PyEq(GetAttr(cls, ainst, name), GetAttr(cls, minst, name))

(***************************************************************************)
(* C14 (as claimed): the object the local map of a container holds for a   *)
(* super key stays the same object, whatever gets, enumerations and        *)
(* load_all calls follow.                                                  *)
(***************************************************************************)
C14_ChildIsStable ==
    [][\A k \in DOMAIN local : /\ k \in DOMAIN local'
                               /\ local'[k].obj = local[k].obj]_vars

(***************************************************************************)
(* C17: container[item] = value raises NotSupported and leaves the local   *)
(* map and the cache of the class as they were.                            *)
(***************************************************************************)
C17_SetItemNotSupported ==
    [][cop'.name = "__setitem__" /\ cop' # cop
        => /\ cerr' = "NotSupported"
           /\ local' = local
           /\ cache' = cache]_vars

\* An assignment was refused on a container that holds objects and whose
\* class has cached entries.
C17_Witness ==
    /\ cop.name = "__setitem__"
    /\ cerr = "NotSupported"
    /\ cop.key \in DOMAIN local
    /\ DOMAIN cache # {}

(***************************************************************************)
(* C15 (as claimed): a remove of a record that has a key, which the store  *)
(* accepts, issues exactly one storage call, a remove of the whole path of *)
(* the key, writes to no mirror and no index, and leaves the record empty  *)
(* and clean, whatever state the record was in.                            *)
(***************************************************************************)
C15_RemoveKeyed ==
    [][(StepOf("remove") /\ key # NoKey /\ err' # "StorageError")
        => /\ Len(calls') = 1
           /\ calls'[1].op = "remove"
           /\ calls'[1].key = key
           /\ calls'[1].path = WholePath(key)
           /\ indexed' = <<>>
           /\ err' = "none"
           /\ items' = EmptyMap
           /\ columns' = EmptyMap
           /\ original' = EmptyMap
           /\ modified' = EmptyMap
           /\ deleted' = EmptyMap]_vars

(***************************************************************************)
(* C16 (as claimed): a revert issues no storage call and leaves the record *)
(* with exactly the names and values of original, and nothing modified or  *)
(* deleted.                                                                *)
(***************************************************************************)
C16_RevertRestoresOriginal ==
    [][StepOf("revert")
        => /\ calls' = <<>>
           /\ err' = "none"
           /\ DOMAIN items' = DOMAIN original
           /\ \A n \in DOMAIN original : items'[n] = heap[original[n]].value
           /\ modified' = EmptyMap
           /\ deleted' = EmptyMap]_vars

(***************************************************************************)
(* C18 (as claimed): every storage call of a save or a remove called with  *)
(* a member of the consistency enum carries that member, the member whose  *)
(* number is 0 too.                                                        *)
(***************************************************************************)
C18_ConsistencyUnchanged ==
    [][((StepOf("save") \/ StepOf("remove")) /\ op'.consistency # "None")
        => \A i \in 1..Len(calls') :
              calls'[i].consistency = op'.consistency]_vars

(***************************************************************************)
(* C19 (as claimed): a class statement succeeds only if its own and        *)
(* inherited fields name exactly one key field; with none or with more     *)
(* than one it fails; and a subclass that inherits one key field and       *)
(* declares an inherited field again is made, with that key field.         *)
(***************************************************************************)
\* The key fields a reader of the class statement sees: the body's, and the
\* base's that the body does not bind to a Field again.
DeclaredKeyFields(def) ==
    LET seen == KeepsRedeclared(def.inherited, def.attrs)
    IN {n \in DOMAIN seen : seen[n] = "KeyField"}

\* The body binds Fields the base holds, each to a Field of the same class.
RedeclaresInherited(def) ==
    LET again == {n \in DOMAIN def.attrs : IsField(def.attrs[n])}
    IN /\ again # {}
       /\ \A n \in again : /\ n \in DOMAIN def.inherited
                           /\ def.attrs[n] = def.inherited[n]

C19_ExactlyOneKeyField ==
    tres.err # "init" =>
        LET keys == DeclaredKeyFields(tdef)
        IN /\ tres.err = "none" => Cardinality(keys) = 1
           /\ Cardinality(keys) # 1 => tres.err # "none"
           /\ (RedeclaresInherited(tdef) /\ Cardinality(keys) = 1)
                 => /\ tres.err = "none"
                    /\ tres.key_field \in keys

(***************************************************************************)
(* C21: within one save, under each key it writes to (the record's own and *)
(* each mirror's), every remove is issued before the batch_insert, at most *)
(* one batch_insert is issued, and it carries all the changed columns;     *)
(* when no call fails, there is one remove per deleted path.               *)
(***************************************************************************)
CallsUnder(cs, k) == SelectSeq(cs, LAMBDA c : c.key = k)
KeysWritten(cs) == {cs[i].key : i \in 1..Len(cs)}

C21_DeletesBeforeInsert ==
    [][(StepOf("save") /\ key # NoKey)
        => \A k \in KeysWritten(calls') :
              LET cs == CallsUnder(calls', k)
                  ins == {i \in 1..Len(cs) : cs[i].op = "batch_insert"}
                  rem == {i \in 1..Len(cs) : cs[i].op = "remove"}
              IN /\ \A i \in ins, j \in rem : j < i
                 /\ Cardinality(ins) <= 1
                 /\ \A i \in ins :
                       cs[i].columns =
                          {heap[columns[n]] : n \in DOMAIN modified}
                 /\ (err' = "none" \/ ins # {})
                       => {cs[j].path : j \in rem}
                             = {GetPath(key, n) : n \in DOMAIN deleted}
                 /\ Cardinality(rem) <= Cardinality(DOMAIN deleted)]_vars

\* A save wrote removes and a batch_insert under the record's key and under
\* the mirror's key.
C21_Witness ==
    /\ op.name = "save"
    /\ err = "none"
    /\ Cardinality(KeysWritten(calls)) = 2
    /\ \A k \in KeysWritten(calls) :
          \E i, j \in 1..Len(CallsUnder(calls, k)) :
             /\ CallsUnder(calls, k)[i].op = "remove"
             /\ CallsUnder(calls, k)[j].op = "batch_insert"

(***************************************************************************)
(* C25 (as claimed): when record[n] = v returns, reading n yields the      *)
(* value set and n is not in the deleted set, whatever was done to n       *)
(* since the last load or save.                                            *)
(***************************************************************************)
C25_ReadYourWrites ==
    [][(StepOf("set") /\ err' = "none")
        => /\ op'.item \in DOMAIN items'
           /\ items'[op'.item] = Sanitize(op'.value)
           /\ op'.item \notin DOMAIN deleted']_vars

(***************************************************************************)
(* C26 (as claimed): is_modified() is true exactly when the current column *)
(* names and values differ from those of original, and when they are equal *)
(* marshal() is empty.                                                     *)
(***************************************************************************)
CurrentIsOriginal(r) ==
    /\ DOMAIN r.columns = DOMAIN r.original
    /\ \A n \in DOMAIN r.original :
          r.heap[r.columns[n]].value = r.heap[r.original[n]].value

C26_ModifiedIffDiffers ==
    /\ IsModified(Self) <=> ~CurrentIsOriginal(Self)
    /\ CurrentIsOriginal(Self)
          => /\ MarshalDeleted(Self, KeysIn(deleted, NameSeq)) = <<>>
             /\ MarshalChanged(Self) = <<>>

(***************************************************************************)
(* C29: when a storage call of the primary write raises, save raises that  *)
(* error; every call it issued is under the record's key and none is       *)
(* issued twice or after the failing one, nothing is appended to an index, *)
(* modified is as it was and every deleted name whose remove was not       *)
(* issued is still in deleted.                                             *)
(***************************************************************************)
C29_PrimaryFailureKeepsEdits ==
    [][(StepOf("save") /\ key # NoKey /\ op'.fault.p # 0
            /\ ~MarshalRaises(Self))
        => /\ err' = "StorageError"
           /\ Len(calls') = op'.fault.p
           /\ \A i \in 1..Len(calls') : calls'[i].key = key
           /\ \A i, j \in 1..Len(calls') :
                 (calls'[i].op = calls'[j].op /\ calls'[i].path = calls'[j].path)
                    => i = j
           /\ indexed' = <<>>
           /\ modified' = modified
           /\ \A n \in DOMAIN deleted :
                 (\A i \in 1..Len(calls') :
                     calls'[i].op = "remove" => calls'[i].path # GetPath(key, n))
                    => n \in DOMAIN deleted']_vars

\* The first of several calls of the primary write raised, with a name
\* pending a delete and a name pending an insert.
C29_Witness ==
    /\ op.name = "save"
    /\ err = "StorageError"
    /\ Len(calls) < NumCalls(Self)
    /\ DOMAIN deleted # {}
    /\ DOMAIN modified # {}

(***************************************************************************)
(* C22 (as claimed): an enumeration of a container ends, whatever the row  *)
(* holds and whatever chunk_size and limit are: a generator that has been  *)
(* started and is asked on comes to its end.                               *)
(***************************************************************************)
C22_EnumerationTerminates == (pc = "fetch") ~> (pc \in {"done", "raised"})
(***************************************************************************)
(* C28 (as claimed): container[k] for a super key k the local map lacks    *)
(* puts there a child whose pk is the pk of the container with superkey k, *)
(* and which holds the columns the store holds under k, whatever super     *)
(* keys were read before.                                                  *)
(***************************************************************************)
C28_ChildHoldsItsColumns ==
    [][(cop'.name = "__getitem__" /\ cop'.key \notin DOMAIN local)
        => /\ cop'.key \in DOMAIN local'
           /\ local'[cop'.key].pk = Clone(ContainerName, cop'.key)
           /\ local'[cop'.key].columns = cop'.key]_vars
(***************************************************************************)
(* C24: append of an object whose pk has a supercol and a superkey stores  *)
(* that object in the local map under its superkey, its pk rewritten to    *)
(* the pk of the container with supercol the name of the container and the *)
(* superkey kept, and leaves the other children alone; append of an object *)
(* that lacks one of them raises AssertionError and leaves the local map   *)
(* as it was.  A container[k] that follows an append under k hands out the *)
(* appended object and sends nothing to the store.                         *)
(***************************************************************************)
C24_AppendStoresOrFails ==
    [][/\ (cop'.name = "append" /\ cop' # cop) =>
            IF HasPosition(cop'.arg)
            THEN /\ cerr' = "none"
                 /\ DOMAIN local' = DOMAIN local \cup {cop'.arg.superkey}
                 /\ local'[cop'.arg.superkey].obj = 0
                 /\ local'[cop'.arg.superkey].pk =
                       [supercol |-> ContainerName,
                        superkey |-> cop'.arg.superkey]
                 /\ \A k \in DOMAIN local \ {cop'.arg.superkey} :
                       local'[k] = local[k]
            ELSE /\ cerr' = "AssertionError"
                 /\ local' = local
       /\ (/\ cop.name = "append" /\ cerr = "none"
           /\ cop'.name = "__getitem__" /\ cop'.key = cop.key) =>
            /\ cerr' = "none"
            /\ sent' = <<>>
            /\ cache' = cache
            /\ local' = local
            /\ local'[cop'.key].obj = 0]_vars

\* container[k] handed out an object the application had appended, and the
\* store was never read.
C24_Witness ==
    /\ cop.name = "__getitem__"
    /\ cerr = "none"
    /\ cop.key \in DOMAIN local
    /\ local[cop.key].obj = 0
    /\ local[cop.key].pk.supercol = ContainerName
    /\ sent = <<>>
    /\ DOMAIN cache = {}

(***************************************************************************)
(* C23 (as claimed): a save of the container sends at most one             *)
(* batch_insert_super_column, which carries the changed columns of each    *)
(* child that has any and nothing else, and one client.remove for each     *)
(* deleted column of each child, none of them twice.                       *)
(***************************************************************************)
SentNamed(name) == SelectSeq(sent, LAMBDA c : c.name = name)
Carried ==
    IF SentNamed("batch_insert_super_column") = <<>> THEN <<>>
    ELSE SentNamed("batch_insert_super_column")[1].cfmap[ContainerName]
WithChanges == {k \in DOMAIN local : local[k].modified # {}}
PendingDeletes ==
    {<<k, n>> \in (DOMAIN local) \X Names : n \in local[k].deleted}

C23_OneBatchOneRemovePerDelete ==
    cop.name = "save" =>
        /\ Len(SentNamed("batch_insert_super_column")) <= 1
        /\ Len(Carried) = Cardinality(WithChanges)
        /\ {Carried[i] : i \in 1..Len(Carried)} =
               {local[k].modified : k \in WithChanges}
        /\ Len(SentNamed("remove")) = Cardinality(PendingDeletes)
        /\ {<<SentNamed("remove")[i].superkey, SentNamed("remove")[i].column>> :
                i \in 1..Len(SentNamed("remove"))} = PendingDeletes

(***************************************************************************)
(* C27 (as claimed): after a save of the container that returned, no child *)
(* it holds is modified; and a save of a container none of whose children  *)
(* is modified sends no batch_insert_super_column and no client.remove.    *)
(***************************************************************************)
C27_SaveIsIdempotent ==
    /\ (cop.name = "save" /\ cerr = "none") =>
            \A k \in DOMAIN local : ~ChildIsModified(local[k])
    /\ (cop.name = "save" /\ \A k \in DOMAIN local :
                                ~ChildIsModified(local[k])) =>
            sent = <<>>

====
